---- MODULE Spec2Model ----
(***************************************************************************)
(* A model of the CRUD helper layer of src/utils/db_utils.py: the filter   *)
(* clause builder, the ordering builder, the error taxonomy, the db_error  *)
(* and db_commit wrappers and the CRUD primitives, run against a model of  *)
(* the session they are handed (unit of work: identity map, pending        *)
(* deletions, autoflush, commit, rollback).                                *)
(***************************************************************************)
EXTENDS Integers, Sequences, FiniteSets, TLC

VARIABLES
    entity,     \* the mapped entity type the caller works with ("Plant" or "Tag")
    database,   \* the committed rows of the entity's table
    session,    \* the session: [txn, imap, deleted, broken]
    call        \* the last call made by the caller: arguments and outcome

vars == <<entity, database, session, call>>

(***************************************************************************)
(* Bounds of the model.                                                    *)
(***************************************************************************)
\* primary keys range over 1..MaxId
MaxId == 2
\* save is handed lists of at most MaxList instances
MaxList == 2

(***************************************************************************)
(* Python values.  A string is a sequence of one-character strings; a      *)
(* value is tagged with its type so that values of different types can be  *)
(* compared the way Python's == compares them (unequal).                   *)
(***************************************************************************)
None == [t |-> "none", n |-> 0, s |-> <<>>, items |-> <<>>]
IntV(n) == [t |-> "int", n |-> n, s |-> <<>>, items |-> <<>>]
StrV(s) == [t |-> "str", n |-> 0, s |-> s, items |-> <<>>]
ListV(items) == [t |-> "list", n |-> 0, s |-> <<>>, items |-> items]

\* field names and filter keys, as Python strings
F_id == <<"i", "d">>
F_code == <<"c", "o", "d", "e">>
F_name == <<"n", "a", "m", "e">>
F_species == <<"s", "p", "e", "c", "i", "e", "s">>
F_bogus == <<"b", "o", "g", "u", "s">>
Sep == <<"_", "_">>

\* the decimal digits
Digits == <<"0", "1", "2", "3", "4", "5", "6", "7", "8", "9">>

\* code points of the characters the model uses (string ordering)
Ord(c) ==
    CASE c = "%" -> 37
      [] c = "-" -> 45
      [] \E d \in 1..10 : Digits[d] = c -> 47 + (CHOOSE d \in 1..10 : Digits[d] = c)
      [] c = "A" -> 65
      [] c = "B" -> 66
      [] c = "X" -> 88
      [] c = "Y" -> 89
      [] c = "_" -> 95
      [] c = "a" -> 97
      [] c = "b" -> 98
      [] c = "x" -> 120
      [] c = "y" -> 121
      [] OTHER -> 0

RECURSIVE StrLess(_, _)
StrLess(a, b) ==
    IF b = <<>> THEN FALSE
    ELSE IF a = <<>> THEN TRUE
    ELSE IF Ord(Head(a)) # Ord(Head(b)) THEN Ord(Head(a)) < Ord(Head(b))
    ELSE StrLess(Tail(a), Tail(b))

(***************************************************************************)
(* The mapped entities.  Plant{id, name, species} has the primary key id;  *)
(* Tag{code, name, species} has the primary key code.  An instance is a    *)
(* mapping from field names to values; a transient instance whose key is   *)
(* generated by the engine carries None as its key.                        *)
(***************************************************************************)
Entities == {"Plant", "Tag"}
PkName(e) == IF e = "Plant" THEN F_id ELSE F_code
Fields(e) == {PkName(e), F_name, F_species}
Instance(e, pk, name, species) ==
    (PkName(e) :> pk) @@ (F_name :> StrV(name)) @@ (F_species :> StrV(species))
PkOf(e, row) == row[PkName(e)].n

Names == {<<"a">>, <<"a", "b">>}
Species == {<<"x">>, <<"y">>}
Ids == 1..MaxId

(***************************************************************************)
(* Outcomes of a call: a returned value or a raised error.  A returned     *)
(* value has a shape ("none", "bool", "instance", "list") and the          *)
(* instances it holds; an error has its class, its status code (0 when the *)
(* class carries none) and its message.                                    *)
(***************************************************************************)
Ret(shape, val) ==
    [raised |-> FALSE, kind |-> "", status |-> 0, msg |-> "", shape |-> shape, val |-> val]
Raise(kind, status, msg) ==
    [raised |-> TRUE, kind |-> kind, status |-> status, msg |-> msg, shape |-> "error", val |-> <<>>]

\* class DatabaseError(message, status_code=500)
DatabaseError(msg) == Raise("DatabaseError", 500, msg)
\* class NotFoundError(message): status 404
NotFoundError(msg) == Raise("NotFoundError", 404, msg)
\* class ValidationError(message): status 400
ValidationError(msg) == Raise("ValidationError", 400, msg)
\* an error raised by Python or by the engine, outside the taxonomy
RawError(kind, msg) == Raise(kind, 0, msg)

\* the classes that derive from DatabaseError
Taxonomy == {"DatabaseError", "NotFoundError", "ValidationError"}
\* the built-in classes that derive from BaseException but not from Exception
\* (the ones `except Exception` does not catch)
NonExceptions ==
    {"KeyboardInterrupt", "SystemExit", "GeneratorExit", "CancelledError", "BaseExceptionGroup"}

\* db_error: a taxonomy error passes, any other Exception becomes DatabaseError(str(e))
db_error(out) ==
    IF ~out.raised THEN out
    ELSE IF out.kind \in Taxonomy THEN out
    ELSE IF out.kind \in NonExceptions THEN out
    ELSE DatabaseError(out.msg)

(***************************************************************************)
(* The session handed to the primitives.                                   *)
(*   txn      the rows the session's transaction sees (flushed state)      *)
(*   imap     the identity keys of the instances held in the identity map  *)
(*   deleted  the keys of the instances marked for deletion, not flushed   *)
(*   dirty    the instances changed in memory and not flushed: identity    *)
(*            key |-> the values the instance holds                        *)
(*   broken   a flush failed: the transaction was rolled back and every    *)
(*            statement raises until rollback() is called                  *)
(***************************************************************************)
NoDirty == [k \in {} |-> None]

NewSession(rows) ==
    [txn |-> rows, imap |-> {}, deleted |-> {}, dirty |-> NoDirty, broken |-> FALSE]

RowsWithPk(e, rows, id) == {r \in rows : PkOf(e, r) = id}
Keys(e, rows) == {PkOf(e, r) : r \in rows}
RowOf(e, rows, id) == CHOOSE r \in rows : PkOf(e, r) = id
SetMin(S) == CHOOSE y \in S : \A z \in S : y <= z

\* the values an instance of the identity map holds in memory
InMemory(e, ss, id) ==
    IF id \in DOMAIN ss.dirty THEN ss.dirty[id] ELSE RowOf(e, ss.txn, id)

\* the UPDATEs of a flush, one per changed instance in the order of their
\* identity keys; an UPDATE that moves a row to a key another row holds fails
RECURSIVE ApplyUpdates(_, _, _, _)
ApplyUpdates(e, rows, dirty, todo) ==
    IF todo = {} THEN [ok |-> TRUE, rows |-> rows]
    ELSE
      LET k == SetMin(todo)
          new == dirty[k]
      IN  IF PkOf(e, new) # k /\ RowsWithPk(e, rows, PkOf(e, new)) # {}
          THEN [ok |-> FALSE, rows |-> rows]
          ELSE ApplyUpdates(e, (rows \ {RowOf(e, rows, k)}) \cup {new}, dirty, todo \ {k})

\* the first half of a flush: the UPDATEs of the changed instances that are not
\* marked for deletion; an instance whose key changed takes its new identity key
FlushUpdates(e, ss) ==
    LET todo == (DOMAIN ss.dirty) \ ss.deleted
        u == ApplyUpdates(e, ss.txn, ss.dirty, todo)
    IN  IF ~u.ok THEN [ok |-> FALSE, ss |-> ss]
        ELSE [ok |-> TRUE,
              ss |-> [ss EXCEPT !.txn = u.rows,
                                !.imap = {IF k \in todo THEN PkOf(e, ss.dirty[k]) ELSE k : k \in @},
                                !.dirty = NoDirty]]

\* the last half of a flush: the DELETEs of the instances marked for deletion
FlushDeletes(e, ss) ==
    [ss EXCEPT !.txn = {r \in ss.txn : PkOf(e, r) \notin ss.deleted},
               !.imap = ss.imap \ ss.deleted,
               !.deleted = {}]

\* session.flush() with no instance pending insertion: [ok, ss]
Flush(e, ss) ==
    LET u == FlushUpdates(e, ss)
    IN  IF ~u.ok THEN u ELSE [ok |-> TRUE, ss |-> FlushDeletes(e, u.ss)]

\* a flush that failed: the transaction is rolled back (which expires every
\* instance and discards the pending changes) and awaits rollback()
FailedFlush(db) ==
    [txn |-> db, imap |-> {}, deleted |-> {}, dirty |-> NoDirty, broken |-> TRUE]

IntegrityError == RawError("IntegrityError", "UNIQUE constraint failed")
PendingRollback == RawError("PendingRollbackError", "transaction rolled back during flush")

\* session.commit(): flush, make the transaction durable, expire every instance
SessionCommit(e, db, ss) ==
    LET f == Flush(e, ss)
    IN  IF ss.broken THEN [db |-> db, ss |-> ss, out |-> PendingRollback]
        ELSE IF ~f.ok THEN [db |-> db, ss |-> FailedFlush(db), out |-> IntegrityError]
        ELSE [db |-> f.ss.txn, ss |-> NewSession(f.ss.txn), out |-> Ret("none", <<>>)]

\* session.rollback(): discard the transaction, expire every instance
SessionRollback(db) == NewSession(db)

\* session.get(entity, id): the identity map first, else autoflush and SELECT
SessionGet(e, db, ss, id) ==
    IF id \in ss.imap
    THEN [ss |-> ss, out |-> Ret("instance", <<InMemory(e, ss, id)>>)]
    ELSE IF ss.broken
    THEN [ss |-> ss, out |-> PendingRollback]
    ELSE LET f == Flush(e, ss)
         IN  IF ~f.ok THEN [ss |-> FailedFlush(db), out |-> IntegrityError]
             ELSE IF RowsWithPk(e, f.ss.txn, id) # {}
             THEN [ss |-> [f.ss EXCEPT !.imap = @ \cup {id}],
                   out |-> Ret("instance", <<RowOf(e, f.ss.txn, id)>>)]
             ELSE [ss |-> f.ss, out |-> Ret("none", <<>>)]

(***************************************************************************)
(* get_by_id, delete, update, save.                                        *)
(***************************************************************************)
get_by_id(e, db, ss, id) ==
    LET r == SessionGet(e, db, ss, id)
    IN  [ss |-> r.ss, out |-> db_error(r.out)]

\* delete without the existence check
delete_unchecked(e, db, ss, id) ==
    LET r == SessionGet(e, db, ss, id)
    IN  IF r.out.raised THEN [ss |-> r.ss, out |-> db_error(r.out)]
        ELSE [ss |-> [r.ss EXCEPT !.deleted = @ \cup ({id} \cap r.ss.imap)],
              out |-> Ret("bool", <<>>)]

\* delete without session.delete(db_obj)
delete_unmarked(e, db, ss, id) ==
    LET r == SessionGet(e, db, ss, id)
    IN  IF r.out.raised THEN [ss |-> r.ss, out |-> db_error(r.out)]
        ELSE IF r.out.shape = "none"
        THEN [ss |-> r.ss, out |-> NotFoundError("not found")]
        ELSE [ss |-> r.ss, out |-> Ret("bool", <<>>)]

\* delete(session, obj, id)
delete(e, db, ss, id) ==
    LET r == SessionGet(e, db, ss, id)
    IN  IF r.out.raised THEN [ss |-> r.ss, out |-> db_error(r.out)]
        ELSE IF r.out.shape = "none"
        THEN [ss |-> r.ss, out |-> NotFoundError("not found")]
        ELSE [ss |-> [r.ss EXCEPT !.deleted = @ \cup {id}], out |-> Ret("bool", <<>>)]

\* the dict update() merges and writes back: the fields of the instance,
\* overridden by the fields set in the partial payload, without the key "id"
MergedDict(row, partial) ==
    LET all == [f \in (DOMAIN row) \cup (DOMAIN partial) |->
                    IF f \in DOMAIN partial THEN partial[f] ELSE row[f]]
    IN  [f \in (DOMAIN all) \ {F_id} |-> all[f]]

\* the session after the values `new` were set on the instance with key id
MarkDirty(e, ss, id, new) ==
    IF new = RowOf(e, ss.txn, id)
    THEN [ss EXCEPT !.dirty = [k \in (DOMAIN @) \ {id} |-> @[k]]]
    ELSE [ss EXCEPT !.dirty = [k \in (DOMAIN @) \cup {id} |-> IF k = id THEN new ELSE @[k]]]

\* update(session, obj, id, vals)
update(e, db, ss, id, partial) ==
    LET r == SessionGet(e, db, ss, id)
    IN  IF r.out.raised THEN [ss |-> r.ss, out |-> db_error(r.out)]
        ELSE IF r.out.shape = "none"
        THEN [ss |-> r.ss, out |-> NotFoundError("not found")]
        ELSE
          LET row == r.out.val[1]
              d == MergedDict(row, partial)
              \* setattr(db_result, key, value) for the keys that are fields of
              \* the instance; the dict lists them before the keys that are not
              set == [f \in DOMAIN row |-> IF f \in DOMAIN d THEN d[f] ELSE row[f]]
          IN  IF ~(DOMAIN d \subseteq DOMAIN row)
              THEN \* setattr of a name that is no field of the instance raises;
                   \* the fields set before it stay changed in memory
                   [ss |-> MarkDirty(e, r.ss, id, set),
                    out |-> db_error(RawError("ValueError", "object has no field"))]
              ELSE
                LET \* session.add(db_result) takes a pending deletion back
                    added == [r.ss EXCEPT !.deleted = @ \ {id}]
                    \* session.refresh(db_result): the instance is expired, which
                    \* discards the values set on it; then autoflush (the pending
                    \* changes of the other instances); then the instance is
                    \* reloaded by its identity key
                    expired == [added EXCEPT !.dirty = [k \in (DOMAIN @) \ {id} |-> @[k]]]
                    f == Flush(e, expired)
                IN  IF ~f.ok
                    THEN [ss |-> FailedFlush(db), out |-> db_error(IntegrityError)]
                    ELSE [ss |-> f.ss, out |-> Ret("instance", <<RowOf(e, f.ss.txn, id)>>)]

\* the key the engine generates for an inserted row (SQLite INTEGER PRIMARY KEY:
\* one more than the largest key in the table)
SetMax(S) == IF S = {} THEN 0 ELSE LET x == CHOOSE y \in S : \A z \in S : z <= y IN x
NextKey(e, rows) == SetMax(Keys(e, rows)) + 1

\* the INSERTs of one flush, in the order the instances were added: the result is
\* [ss, ok, rows], rows being the instances as refreshed from the table
RECURSIVE InsertAll(_, _, _, _)
InsertAll(e, ss, items, done) ==
    IF items = <<>> THEN [ss |-> ss, ok |-> TRUE, rows |-> done]
    ELSE
      LET it == Head(items)
          given == it[PkName(e)]
      IN  IF given = None
          THEN LET k == NextKey(e, ss.txn)
                   row == [it EXCEPT ![PkName(e)] = IntV(k)]
               IN  InsertAll(e, [ss EXCEPT !.txn = @ \cup {row}, !.imap = @ \cup {k}],
                             Tail(items), Append(done, row))
          ELSE IF given.n \in ss.deleted
          THEN \* row switch: the deleted row is updated to the new instance
               LET old == RowOf(e, ss.txn, given.n)
               IN  InsertAll(e, [ss EXCEPT !.txn = (@ \ {old}) \cup {it},
                                           !.deleted = @ \ {given.n}],
                             Tail(items), Append(done, it))
          ELSE IF RowsWithPk(e, ss.txn, given.n) # {}
          THEN [ss |-> ss, ok |-> FALSE, rows |-> done]
          ELSE InsertAll(e, [ss EXCEPT !.txn = @ \cup {it}, !.imap = @ \cup {given.n}],
                         Tail(items), Append(done, it))

\* save(session, new_obj): new_obj is one instance (isList FALSE, items of
\* length 1) or a list of instances; the flush sends the UPDATEs, then the
\* INSERTs, then the DELETEs
save(e, db, ss, isList, items) ==
    IF items = <<>>
    THEN \* nothing added, no flush; new_obj[0] raises IndexError
         [ss |-> ss, out |-> db_error(RawError("IndexError", "list index out of range"))]
    ELSE IF ss.broken
    THEN [ss |-> ss, out |-> db_error(PendingRollback)]
    ELSE LET u == FlushUpdates(e, ss)
             ins == InsertAll(e, u.ss, items, <<>>)
         IN  IF ~u.ok \/ ~ins.ok
             THEN [ss |-> FailedFlush(db), out |-> db_error(IntegrityError)]
             ELSE [ss |-> FlushDeletes(e, ins.ss),
                   out |-> IF Len(ins.rows) > 1 THEN Ret("list", ins.rows)
                           ELSE Ret("instance", <<ins.rows[1]>>)]

(***************************************************************************)
(* _build_clauses: the filter mapping is an insertion-ordered sequence of  *)
(* <<key, value>> pairs; a key is field or field__operator.                *)
(***************************************************************************)
Op_eq == <<"e", "q">>
Op_ne == <<"n", "e">>
Op_lt == <<"l", "t">>
Op_lte == <<"l", "t", "e">>
Op_gt == <<"g", "t">>
Op_gte == <<"g", "t", "e">>
Op_in == <<"i", "n">>
Op_contains == <<"c", "o", "n", "t", "a", "i", "n", "s">>
Op_like == <<"l", "i", "k", "e">>
Op_zz == <<"z", "z">>
Operators == {Op_eq, Op_ne, Op_lt, Op_lte, Op_gt, Op_gte, Op_in, Op_contains, Op_like}

\* the index of the first "__" in the key, 0 when there is none
FindSep(key) ==
    LET hits == {i \in 1..(Len(key) - 1) : key[i] = "_" /\ key[i + 1] = "_"}
    IN  IF hits = {} THEN 0 ELSE CHOOSE i \in hits : \A j \in hits : i <= j

\* raw_key.split("__", 1), or (raw_key, "eq")
SplitKey(key) ==
    LET i == FindSep(key)
    IN  IF i = 0 THEN [field |-> key, op |-> Op_eq]
        ELSE [field |-> SubSeq(key, 1, i - 1), op |-> SubSeq(key, i + 2, Len(key))]

\* the selection handed to get: one entity type, or a list of its columns
EntitySel(e) == [isList |-> FALSE, e |-> e, cols |-> <<>>]
ColumnSel(e, cols) == [isList |-> TRUE, e |-> e, cols |-> cols]

\* hasattr(model, field): the columns of the entity; a list of columns has none
\* of the field names the model draws
HasAttr(obj, field) == ~obj.isList /\ field \in Fields(obj.e)

RECURSIVE BuildFrom(_, _, _)
BuildFrom(obj, filters, clauses) ==
    IF filters = <<>> THEN [out |-> Ret("list", <<>>), clauses |-> clauses]
    ELSE
      LET key == Head(filters)[1]
          value == Head(filters)[2]
          k == SplitKey(key)
      IN  IF ~HasAttr(obj, k.field)
          THEN IF obj.isList
               THEN \* the message reads model.__name__, which a list has not
                    [out |-> RawError("AttributeError", "'list' object has no attribute '__name__'"),
                     clauses |-> <<>>]
               ELSE [out |-> ValidationError("Field not found"), clauses |-> <<>>]
          ELSE IF k.op \notin Operators
          THEN [out |-> ValidationError("Unsupported filter operation"), clauses |-> <<>>]
          ELSE IF k.op = Op_in /\ value.t # "list"
          THEN [out |-> ValidationError("Value must be a list/tuple for __in"), clauses |-> <<>>]
          ELSE BuildFrom(obj, Tail(filters),
                         Append(clauses, [field |-> k.field, op |-> k.op, value |-> value]))

_build_clauses(obj, filters) == BuildFrom(obj, filters, <<>>)

\* the clauses as the engine (SQLite) evaluates them on a row
\* the decimal text of an integer
RECURSIVE DigitsOf(_)
DigitsOf(n) ==
    IF n < 10 THEN <<Digits[n + 1]>> ELSE DigitsOf(n \div 10) \o <<Digits[(n % 10) + 1]>>
ToText(n) == IF n < 0 THEN <<"-">> \o DigitsOf(0 - n) ELSE DigitsOf(n)

\* whether a text is an integer literal (-?[0-9]+), and the integer it denotes
AllDigits(s) == s # <<>> /\ \A i \in 1..Len(s) : \E d \in 1..10 : Digits[d] = s[i]
IsNumeric(s) == AllDigits(s) \/ (s # <<>> /\ Head(s) = "-" /\ AllDigits(Tail(s)))
RECURSIVE DigitsValue(_)
DigitsValue(s) ==
    IF s = <<>> THEN 0
    ELSE 10 * DigitsValue(SubSeq(s, 1, Len(s) - 1))
         + ((CHOOSE d \in 1..10 : Digits[d] = s[Len(s)]) - 1)
ToInt(s) == IF Head(s) = "-" THEN 0 - DigitsValue(Tail(s)) ELSE DigitsValue(s)

\* column affinity applied to the value a column is compared with: an INTEGER
\* column turns a text that is an integer literal into the integer, a TEXT
\* column turns an integer into its text
Coerce(col, v) ==
    IF col.t = "int" /\ v.t = "str" /\ IsNumeric(v.s) THEN IntV(ToInt(v.s))
    ELSE IF col.t = "str" /\ v.t = "int" THEN StrV(ToText(v.n))
    ELSE v

\* a < b in the engine: integers sort before texts, NULL compares with nothing
ValLess(a, b) ==
    \/ a.t = "int" /\ b.t = "int" /\ a.n < b.n
    \/ a.t = "str" /\ b.t = "str" /\ StrLess(a.s, b.s)
    \/ a.t = "int" /\ b.t = "str"

\* a = b in the engine: never true of NULL
ValEq(a, b) == a # None /\ b # None /\ a = b

\* the text LIKE sees of a value
TextOf(v) == IF v.t = "int" THEN ToText(v.n) ELSE v.s

\* LIKE folds the case of ASCII letters
Fold(c) ==
    CASE c = "A" -> "a"
      [] c = "B" -> "b"
      [] c = "X" -> "x"
      [] c = "Y" -> "y"
      [] OTHER -> c

\* SQL LIKE: % matches any run of characters, _ any one character
RECURSIVE LikeMatch(_, _)
LikeMatch(s, p) ==
    IF p = <<>> THEN s = <<>>
    ELSE IF Head(p) = "%"
    THEN LikeMatch(s, Tail(p)) \/ (s # <<>> /\ LikeMatch(Tail(s), p))
    ELSE /\ s # <<>>
         /\ (Head(p) = "_" \/ Fold(Head(p)) = Fold(Head(s)))
         /\ LikeMatch(Tail(s), Tail(p))

\* whether a row satisfies a clause (col == None is rendered IS NULL, col != None
\* IS NOT NULL)
Sat(row, c) ==
    LET col == row[c.field]
        v == Coerce(col, c.value)
    IN  CASE c.op = Op_eq -> IF v = None THEN col = None ELSE ValEq(col, v)
          [] c.op = Op_ne -> IF v = None THEN col # None
                             ELSE col # None /\ ~ValEq(col, v)
          [] c.op = Op_lt -> ValLess(col, v)
          [] c.op = Op_lte -> ValLess(col, v) \/ ValEq(col, v)
          [] c.op = Op_gt -> ValLess(v, col)
          [] c.op = Op_gte -> ValLess(v, col) \/ ValEq(col, v)
          [] c.op = Op_in -> \E i \in 1..Len(v.items) : ValEq(col, Coerce(col, v.items[i]))
          \* LIKE compares the texts of its operands, with no affinity applied
          [] c.op = Op_contains ->
               /\ col # None
               /\ c.value # None
               /\ LikeMatch(TextOf(col), <<"%">> \o TextOf(c.value) \o <<"%">>)
          [] c.op = Op_like ->
               col # None /\ c.value # None /\ LikeMatch(TextOf(col), TextOf(c.value))
          [] OTHER -> FALSE

SatAll(row, clauses) == \A i \in 1..Len(clauses) : Sat(row, clauses[i])

\* whether the engine can bind the values of the clauses: a list is a value of
\* `in` only
Bindable(clauses) ==
    \A i \in 1..Len(clauses) : clauses[i].op = Op_in \/ clauses[i].value.t # "list"

(***************************************************************************)
(* _order_by: a list of field names, a leading "-" meaning descending.     *)
(***************************************************************************)
RECURSIVE OrderFrom(_, _, _)
OrderFrom(obj, order_by, terms) ==
    IF order_by = <<>> THEN [out |-> Ret("list", <<>>), terms |-> terms]
    ELSE
      LET o == Head(order_by)
          desc == o # <<>> /\ Head(o) = "-"
          fname == IF desc THEN Tail(o) ELSE o
      IN  IF ~HasAttr(obj, fname)
          THEN [out |-> ValidationError("Order field not found"), terms |-> <<>>]
          ELSE OrderFrom(obj, Tail(order_by), Append(terms, [field |-> fname, desc |-> desc]))

_order_by(order_by, obj) == OrderFrom(obj, order_by, <<>>)

\* whether row a sorts before row b: the terms left to right, then the key
RECURSIVE RowBefore(_, _, _, _)
RowBefore(e, a, b, terms) ==
    IF terms = <<>> THEN PkOf(e, a) < PkOf(e, b)
    ELSE
      LET t == Head(terms)
          x == a[t.field]
          y == b[t.field]
      IN  IF x = y THEN RowBefore(e, a, b, Tail(terms))
          ELSE IF t.desc THEN ValLess(y, x) ELSE ValLess(x, y)

RECURSIVE SortRows(_, _, _)
SortRows(e, rows, terms) ==
    IF rows = {} THEN <<>>
    ELSE LET first == CHOOSE r \in rows : \A q \in rows \ {r} : RowBefore(e, r, q, terms)
         IN  <<first>> \o SortRows(e, rows \ {first}, terms)

\* the columns a selection returns of a row
Project(obj, row) ==
    IF obj.isList THEN [f \in {obj.cols[i] : i \in 1..Len(obj.cols)} |-> row[f]] ELSE row
ProjectAll(obj, rows) == [i \in 1..Len(rows) |-> Project(obj, rows[i])]

(***************************************************************************)
(* get, get_or_create, get_or_convert.                                     *)
(***************************************************************************)
get(e, db, ss, obj, filters, order_by, one_or_none) ==
    LET bc == IF filters # <<>> THEN _build_clauses(obj, filters)
              ELSE [out |-> Ret("list", <<>>), clauses |-> <<>>]
        ob == IF order_by # <<>> THEN _order_by(order_by, obj)
              ELSE [out |-> Ret("list", <<>>), terms |-> <<>>]
    IN  IF bc.out.raised THEN [ss |-> ss, out |-> db_error(bc.out)]
        ELSE IF ob.out.raised THEN [ss |-> ss, out |-> db_error(ob.out)]
        ELSE IF ss.broken THEN [ss |-> ss, out |-> db_error(PendingRollback)]
        ELSE
          \* session.exec(stmt): autoflush, then the SELECT
          LET fl == Flush(e, ss)
              f == fl.ss
              hit == {r \in f.txn : SatAll(r, bc.clauses)}
              rows == SortRows(e, hit, ob.terms)
              loaded == IF obj.isList THEN f ELSE [f EXCEPT !.imap = @ \cup Keys(e, hit)]
          IN  IF ~fl.ok THEN [ss |-> FailedFlush(db), out |-> db_error(IntegrityError)]
              ELSE IF ~Bindable(bc.clauses)
              THEN [ss |-> f,
                    out |-> db_error(RawError("ProgrammingError", "Error binding parameter"))]
              ELSE IF ~one_or_none
              THEN [ss |-> loaded, out |-> Ret("list", ProjectAll(obj, rows))]
              ELSE IF Len(rows) > 1
              THEN [ss |-> f,
                    out |-> db_error(RawError("MultipleResultsFound",
                                              "Multiple rows were found when one or none was required"))]
              ELSE IF Len(rows) = 1
              THEN [ss |-> loaded, out |-> Ret("instance", ProjectAll(obj, rows))]
              ELSE [ss |-> f, out |-> Ret("none", <<>>)]

\* val in [None, ""]
IsBlank(v) == v = None \/ v = StrV(<<>>)
AnyBlank(filters) == \E i \in 1..Len(filters) : IsBlank(filters[i][2])
HasKey(filters, key) == \E i \in 1..Len(filters) : filters[i][1] = key
ValueAt(filters, key) == filters[CHOOSE i \in 1..Len(filters) : filters[i][1] = key][2]

\* the lookup get_or_create and get_or_convert share
Lookup(e, db, ss, filters) ==
    IF HasKey(filters, F_id)
    THEN get_by_id(e, db, ss, ValueAt(filters, F_id).n)
    ELSE get(e, db, ss, EntitySel(e), filters, <<>>, TRUE)

\* the one element of a set of one element
The(S) == CHOOSE x \in S : TRUE

\* vals is [ok, row]: ok is FALSE for a vals obj(**vals) cannot be built from
Construct(vals) ==
    IF vals.ok THEN Ret("instance", <<vals.row>>)
    ELSE RawError("TypeError", "argument after ** must be a mapping")

\* what get_or_create does with the result of its lookup
CreateIfMissed(e, db, found, vals) ==
    IF found.out.raised THEN found
    ELSE IF found.out.shape = "none"
    THEN LET built == Construct(vals)
         IN  IF built.raised THEN [ss |-> found.ss, out |-> built]
             ELSE save(e, db, found.ss, FALSE, built.val)
    ELSE found

\* get_or_create that never looks up
get_or_create_always(e, db, ss, vals, filters) ==
    IF AnyBlank(filters) THEN [ss |-> ss, out |-> Ret("none", <<>>)]
    ELSE LET built == Construct(vals)
         IN  IF built.raised THEN [ss |-> ss, out |-> built]
             ELSE save(e, db, ss, FALSE, built.val)

\* get_or_create(session, obj, vals, filters)
get_or_create(e, db, ss, vals, filters) ==
    IF AnyBlank(filters) THEN [ss |-> ss, out |-> Ret("none", <<>>)]
    ELSE The({CreateIfMissed(e, db, found, vals) : found \in {Lookup(e, db, ss, filters)}})

\* what get_or_convert does with the result of its lookup
BuildIfMissed(found, vals) ==
    IF found.out.raised THEN found
    ELSE IF found.out.shape = "none"
    THEN [ss |-> found.ss, out |-> Construct(vals)]
    ELSE found

\* get_or_convert that saves what it builds
get_or_convert_saving(e, db, ss, vals, filters) ==
    IF AnyBlank(filters) THEN [ss |-> ss, out |-> Ret("none", <<>>)]
    ELSE The({CreateIfMissed(e, db, found, vals) : found \in {Lookup(e, db, ss, filters)}})

\* get_or_convert(session, obj, vals, filters)
get_or_convert(e, db, ss, vals, filters) ==
    IF AnyBlank(filters) THEN [ss |-> ss, out |-> Ret("none", <<>>)]
    ELSE The({BuildIfMissed(found, vals) : found \in {Lookup(e, db, ss, filters)}})

(***************************************************************************)
(* db_commit and _extract_session.  A call's keyword arguments are a       *)
(* mapping from names to argument values and its positional arguments a    *)
(* sequence of them; an argument value is "Session" (the session) or       *)
(* another object.                                                         *)
(***************************************************************************)
IsSession(a) == a = "Session"

_extract_session(args, kwargs) ==
    IF "session" \in DOMAIN kwargs /\ IsSession(kwargs["session"]) THEN "Session"
    ELSE IF "db" \in DOMAIN kwargs /\ IsSession(kwargs["db"]) THEN "Session"
    ELSE IF \E i \in 1..Len(args) : IsSession(args[i]) THEN "Session"
    ELSE "None"

\* how a COMMIT or a ROLLBACK sent to the engine may end: it succeeds, it raises
\* an Exception, or it raises an error that is no Exception
Fails == {"no", "exception", "base"}
Failure(mode, msg) ==
    IF mode = "exception" THEN RawError("OperationalError", msg)
    ELSE RawError("KeyboardInterrupt", msg)

\* the except clause that lets any failure of rollback() propagate
ExceptClause_rollback_unguarded(db, located, err, ss, rollbackFails) ==
    IF err.kind \in NonExceptions \/ ~located
    THEN [ss |-> ss, out |-> err, rollbacks |-> 0]
    ELSE IF rollbackFails = "no"
    THEN [ss |-> SessionRollback(db), out |-> err, rollbacks |-> 1]
    ELSE [ss |-> FailedFlush(db), out |-> Failure(rollbackFails, "rollback failed"),
          rollbacks |-> 1]

\* the except clause of the wrapper, entered with the error err raised in the
\* try block: `except Exception` does not catch an error that is no Exception;
\* the rollback is attempted when a session was located, an Exception it raises
\* is swallowed and err is raised again; an error of rollback() that is no
\* Exception leaves instead of err.  A rollback that raised leaves the session
\* without its pending changes and awaiting a rollback() that succeeds.
ExceptClause(db, located, err, ss, rollbackFails) ==
    IF err.kind \in NonExceptions \/ ~located
    THEN [ss |-> ss, out |-> err, rollbacks |-> 0]
    ELSE IF rollbackFails = "no"
    THEN [ss |-> SessionRollback(db), out |-> err, rollbacks |-> 1]
    ELSE [ss |-> FailedFlush(db),
          out |-> IF rollbackFails = "base" THEN Failure(rollbackFails, "rollback failed")
                  ELSE err,
          rollbacks |-> 1]

\* session.commit() as the wrapper calls it: [db, ss, out]
CommitAttempt(e, db, ss, commitFails) ==
    IF commitFails = "no" THEN SessionCommit(e, db, ss)
    ELSE [db |-> db, ss |-> ss, out |-> Failure(commitFails, "commit failed")]

\* db_commit with session.commit() outside the try block
db_commit_commit_outside_try(e, db, located, inner, commitFails, rollbackFails) ==
    LET c == CommitAttempt(e, db, inner.ss, commitFails)
        x == ExceptClause(db, located, inner.out, inner.ss, rollbackFails)
    IN  IF inner.out.raised
        THEN [db |-> db, ss |-> x.ss, out |-> x.out, commits |-> 0, rollbacks |-> x.rollbacks,
              commit |-> Ret("none", <<>>)]
        ELSE IF ~located
        THEN [db |-> db, ss |-> inner.ss, out |-> inner.out, commits |-> 0, rollbacks |-> 0,
              commit |-> Ret("none", <<>>)]
        ELSE [db |-> c.db, ss |-> c.ss, out |-> IF c.out.raised THEN c.out ELSE inner.out,
              commits |-> 1, rollbacks |-> 0, commit |-> c.out]

\* db_commit(func): the wrapper around a wrapped operation that ended as `inner`
\* ([ss, out]); `located` says whether _extract_session found the session;
\* commitFails and rollbackFails say how the engine ends a COMMIT or a ROLLBACK
\* it is sent.  The result carries the number of commit and rollback attempts
\* and the outcome of the commit attempt.
db_commit(e, db, located, inner, commitFails, rollbackFails) ==
    LET c == CommitAttempt(e, db, inner.ss, commitFails)
        x == ExceptClause(db, located, inner.out, inner.ss, rollbackFails)
        y == ExceptClause(db, located, c.out, c.ss, rollbackFails)
    IN  IF inner.out.raised
        THEN [db |-> db, ss |-> x.ss, out |-> x.out, commits |-> 0, rollbacks |-> x.rollbacks,
              commit |-> Ret("none", <<>>)]
        ELSE IF ~located
        THEN [db |-> db, ss |-> inner.ss, out |-> inner.out, commits |-> 0, rollbacks |-> 0,
              commit |-> Ret("none", <<>>)]
        ELSE IF c.out.raised
        THEN \* session.commit() raised inside the try block
             [db |-> db, ss |-> y.ss, out |-> y.out, commits |-> 1, rollbacks |-> y.rollbacks,
              commit |-> c.out]
        ELSE [db |-> c.db, ss |-> c.ss, out |-> inner.out, commits |-> 1, rollbacks |-> 0,
              commit |-> c.out]

(***************************************************************************)
(* The record of the call in progress: what the caller passed and what it  *)
(* got back.  It is NoCall while the caller is between two calls.          *)
(***************************************************************************)
NoCall ==
    [op |-> "none", id |-> 0, isList |-> FALSE, items |-> <<>>, partial |-> <<>>,
     filters |-> <<>>, orderBy |-> <<>>, oneOrNone |-> FALSE, projected |-> FALSE,
     valsOk |-> TRUE, out |-> Ret("none", <<>>), before |-> NewSession({}),
     located |-> FALSE, commits |-> 0, rollbacks |-> 0,
     inner |-> Ret("none", <<>>), commit |-> Ret("none", <<>>), rollbackFails |-> "no"]

Idle == call.op = "none"

\* the rows a commit of the session would leave in the table
Effective(e, db, ss) == SessionCommit(e, db, ss).db

(***************************************************************************)
(* The inputs the caller draws.                                            *)
(***************************************************************************)
NewInstances(e) == {Instance(e, None, <<"a">>, <<"x">>), Instance(e, None, <<"a", "b">>, <<"y">>)}
KeyedInstances(e) == {Instance(e, IntV(k), <<"a">>, <<"x">>) : k \in Ids}
LookupIds == 1..(MaxId + 1)

RECURSIVE SeqsUpTo(_, _)
SeqsUpTo(S, n) ==
    IF n = 0 THEN {<<>>}
    ELSE LET shorter == SeqsUpTo(S, n - 1)
         IN  shorter \cup {Append(q, x) : q \in {p \in shorter : Len(p) = n - 1}, x \in S}

A == StrV(<<"a">>)

\* what model_dump(exclude_unset=True) gives for the payloads update is handed:
\* nothing set, one field set, or a field set together with a field of the
\* payload's schema that the entity has not
Partials(e) ==
    {[f \in {} |-> None]}
    \cup {(F_name :> StrV(n)) : n \in Names}
    \cup {(F_species :> StrV(s)) : s \in Species}
    \cup {(PkName(e) :> IntV(k)) : k \in Ids}
    \cup {(F_bogus :> A)}
    \cup {(F_name :> StrV(<<"a", "b">>)) @@ (F_bogus :> A)}
    \cup {(PkName(e) :> IntV(k)) @@ (F_bogus :> A) : k \in Ids}

Key(field, op) == field \o Sep \o op
One(key, value) == << <<key, value>> >>
Two(k1, v1, k2, v2) == << <<k1, v1>>, <<k2, v2>> >>

\* the filter mappings get_or_create and get_or_convert are handed
LookupFilters(e) ==
    {One(F_name, StrV(n)) : n \in Names \cup {<<"b">>}}
    \cup {One(Key(F_name, Op_ne), A), One(Key(F_name, Op_contains), StrV(<<"b">>))}
    \cup {One(k, IntV(i)) : k \in {F_id, PkName(e)}, i \in LookupIds}
    \cup {One(F_bogus, A), One(F_name, None), One(F_name, StrV(<<>>))}
    \cup {Two(F_name, A, F_species, StrV(<<"x">>)), Two(F_id, IntV(1), F_name, StrV(<<"a", "b">>))}

\* the filter mappings get is handed
GetFilters(e) ==
    LookupFilters(e)
    \cup {One(Key(F_name, op), A) : op \in (Operators \ {Op_in}) \cup {Op_zz, <<>>}}
    \cup {One(Key(F_name, Op_like), StrV(p)) : p \in {<<"a", "%">>, <<"_">>}}
    \cup {One(Key(F_name, Op_in), v) : v \in {A, ListV(<<A>>), ListV(<<A, StrV(<<"a", "b">>)>>)}}
    \cup {One(Key(PkName(e), op), IntV(1)) : op \in {Op_gt, Op_lte, Op_in}}
    \cup {One(Key(F_bogus, Op_zz), A), One(Key(<<>>, Op_eq), A)}
    \* values of another type than the column, as the engine compares them
    \cup {One(Key(PkName(e), Op_like), StrV(<<"%">>)), One(Key(PkName(e), Op_lt), A),
          One(PkName(e), StrV(<<"1">>)), One(Key(F_name, Op_gt), IntV(1)),
          One(Key(F_name, Op_like), StrV(<<"A", "%">>)), One(F_name, ListV(<<A>>))}
    \cup {Two(Key(F_name, Op_zz), A, F_bogus, A), Two(F_bogus, A, Key(F_name, Op_in), A),
          Two(F_name, A, Key(F_species, Op_in), A)}

\* the orderings get is handed
Orderings(e) ==
    {<<F_name>>, <<<<"-">> \o F_name>>, <<F_species, <<"-">> \o PkName(e)>>, <<F_bogus>>,
     <<<<"-">> \o F_bogus>>}

\* the values get_or_create and get_or_convert build the new instance from
LookupVals(e) ==
    {[ok |-> TRUE, row |-> Instance(e, None, <<"a">>, <<"x">>)],
     [ok |-> TRUE, row |-> Instance(e, None, <<"a", "b">>, <<"y">>)],
     [ok |-> TRUE, row |-> Instance(e, IntV(1), <<"a">>, <<"x">>)],
     [ok |-> FALSE, row |-> Instance(e, None, <<"a">>, <<"x">>)]}

\* how a wrapped operation is called: [args, kwargs]
Arrangements ==
    {[args |-> <<>>, kwargs |-> ("session" :> "Session")],
     [args |-> <<>>, kwargs |-> ("db" :> "Session")],
     [args |-> <<"Session">>, kwargs |-> <<>>],
     [args |-> <<"other", "Session">>, kwargs |-> ("session" :> "other")],
     [args |-> <<"other">>, kwargs |-> ("sess" :> "Session")],
     [args |-> <<"other">>, kwargs |-> ("db" :> "other")],
     [args |-> <<>>, kwargs |-> <<>>]}

\* what a wrapped operation that leaves the session alone may do
Behaviours ==
    {Ret("none", <<>>), NotFoundError("not found"), ValidationError("Field not found"),
     DatabaseError("failed"), RawError("ValueError", "bad value"),
     RawError("KeyboardInterrupt", ""), RawError("SystemExit", "3"),
     RawError("GeneratorExit", ""), RawError("CancelledError", ""),
     RawError("BaseExceptionGroup", "g (1 sub-exception)")}

\* the keys every row written by the model may carry
KeysInBound(e, ss) == Keys(e, ss.txn) \subseteq Ids

(***************************************************************************)
(* The caller's calls of the primitives, and the session's own operations. *)
(***************************************************************************)
Init ==
    /\ entity \in Entities
    /\ database = {}
    /\ session = NewSession({})
    /\ call = NoCall

Record(op, r) ==
    [NoCall EXCEPT !.op = op, !.out = r.out, !.before = session]

GetById ==
    /\ Idle
    /\ \E id \in LookupIds :
         \E r \in {get_by_id(entity, database, session, id)} :
             /\ session' = r.ss
             /\ call' = [Record("get_by_id", r) EXCEPT !.id = id]
    /\ UNCHANGED <<entity, database>>

Delete ==
    /\ Idle
    /\ \E id \in LookupIds :
         \E r \in {delete(entity, database, session, id)} :
             /\ session' = r.ss
             /\ call' = [Record("delete", r) EXCEPT !.id = id]
    /\ UNCHANGED <<entity, database>>

Update ==
    /\ Idle
    /\ \E id \in LookupIds, partial \in Partials(entity) :
         \E r \in {update(entity, database, session, id, partial)} :
             /\ session' = r.ss
             /\ call' = [Record("update", r) EXCEPT !.id = id, !.partial = partial]
    /\ UNCHANGED <<entity, database>>

SaveOne ==
    /\ Idle
    /\ \E it \in NewInstances(entity) \cup KeyedInstances(entity) :
         \E r \in {save(entity, database, session, FALSE, <<it>>)} :
             /\ KeysInBound(entity, r.ss)
             /\ session' = r.ss
             /\ call' = [Record("save", r) EXCEPT !.items = <<it>>]
    /\ UNCHANGED <<entity, database>>

SaveList ==
    /\ Idle
    /\ \E items \in SeqsUpTo(NewInstances(entity), MaxList) :
         \E r \in {save(entity, database, session, TRUE, items)} :
             /\ KeysInBound(entity, r.ss)
             /\ session' = r.ss
             /\ call' = [Record("save", r) EXCEPT !.items = items, !.isList = TRUE]
    /\ UNCHANGED <<entity, database>>

Get ==
    /\ Idle
    /\ \E filters \in GetFilters(entity) \cup {<<>>}, projected \in BOOLEAN,
          one_or_none \in BOOLEAN, order_by \in Orderings(entity) \cup {<<>>} :
         \E r \in {get(entity, database, session,
                        IF projected THEN ColumnSel(entity, <<PkName(entity), F_name>>)
                        ELSE EntitySel(entity),
                        filters, order_by, one_or_none)} :
             /\ order_by # <<>> => (Len(filters) <= 1 /\ ~one_or_none)
             /\ session' = r.ss
             /\ call' = [Record("get", r) EXCEPT !.filters = filters, !.orderBy = order_by,
                                                 !.oneOrNone = one_or_none,
                                                 !.projected = projected]
    /\ UNCHANGED <<entity, database>>

GetOrCreate ==
    /\ Idle
    /\ \E vals \in LookupVals(entity), filters \in LookupFilters(entity) \cup {<<>>} :
         \E r \in {get_or_create(entity, database, session, vals, filters)} :
             /\ KeysInBound(entity, r.ss)
             /\ session' = r.ss
             /\ call' = [Record("get_or_create", r) EXCEPT !.filters = filters,
                                                           !.items = <<vals.row>>,
                                                           !.valsOk = vals.ok]
    /\ UNCHANGED <<entity, database>>

GetOrConvert ==
    /\ Idle
    /\ \E vals \in LookupVals(entity), filters \in LookupFilters(entity) \cup {<<>>} :
         \E r \in {get_or_convert(entity, database, session, vals, filters)} :
             /\ session' = r.ss
             /\ call' = [Record("get_or_convert", r) EXCEPT !.filters = filters,
                                                            !.items = <<vals.row>>,
                                                            !.valsOk = vals.ok]
    /\ UNCHANGED <<entity, database>>

\* the caller takes the outcome of its call and goes on
Return ==
    /\ ~Idle
    /\ call' = NoCall
    /\ UNCHANGED <<entity, database, session>>

\* session.commit(), called by the caller
Commit ==
    /\ Idle
    /\ ~session.broken
    /\ LET c == SessionCommit(entity, database, session)
       IN  /\ <<c.db, c.ss>> # <<database, session>>
           /\ database' = c.db
           /\ session' = c.ss
    /\ UNCHANGED <<entity, call>>

\* session.rollback(), called by the caller
Rollback ==
    /\ Idle
    /\ session # SessionRollback(database)
    /\ session' = SessionRollback(database)
    /\ UNCHANGED <<entity, database, call>>

\* the caller drops its last reference to an instance that has no pending
\* change: the identity map holds it weakly and lets it go
GarbageCollect ==
    /\ Idle
    /\ \E k \in session.imap \ (session.deleted \cup DOMAIN session.dirty) :
         session' = [session EXCEPT !.imap = @ \ {k}]
    /\ UNCHANGED <<entity, database, call>>

(***************************************************************************)
(* The operations wrapped by db_commit: the router's three write handlers, *)
(* which the framework calls with the session as the keyword `session`,    *)
(* and an arbitrary wrapped operation called in an arbitrary arrangement.  *)
(***************************************************************************)
Wrapped(op, located, inner, commitFails, rollbackFails) ==
    \E w \in {db_commit(entity, database, located, inner, commitFails, rollbackFails)} :
        /\ KeysInBound(entity, inner.ss)
        /\ database' = w.db
        /\ session' = w.ss
        /\ call' = [NoCall EXCEPT !.op = op, !.out = w.out, !.inner = inner.out,
                                  !.located = located, !.commits = w.commits,
                                  !.rollbacks = w.rollbacks,
                                  !.commit = w.commit,
                                  !.rollbackFails = rollbackFails,
                                  !.before = session]
        /\ UNCHANGED entity

HandlerArgs == [args |-> <<>>, kwargs |-> ("session" :> "Session")]
HandlerLocated == _extract_session(HandlerArgs.args, HandlerArgs.kwargs) = "Session"

CreateItem ==
    /\ Idle
    /\ \E payload \in NewInstances(entity) \cup KeyedInstances(entity),
          commitFails \in Fails, rollbackFails \in Fails :
         \E inner \in {save(entity, database, session, FALSE, <<payload>>)} :
           Wrapped("create_item", HandlerLocated, inner, commitFails, rollbackFails)

UpdateItem ==
    /\ Idle
    /\ \E id \in LookupIds, payload \in Partials(entity),
          commitFails \in Fails, rollbackFails \in Fails :
         \E inner \in {update(entity, database, session, id, payload)} :
           Wrapped("update_item", HandlerLocated, inner, commitFails, rollbackFails)

DeleteItem ==
    /\ Idle
    /\ \E id \in LookupIds, commitFails \in Fails, rollbackFails \in Fails :
         \E inner \in {delete(entity, database, session, id)} :
           Wrapped("delete_item", HandlerLocated, inner, commitFails, rollbackFails)

WrappedCall ==
    /\ Idle
    /\ \E how \in Arrangements, does \in Behaviours,
          commitFails \in Fails, rollbackFails \in Fails :
         Wrapped("wrapped", _extract_session(how.args, how.kwargs) = "Session",
                 [ss |-> session, out |-> does],
                 commitFails, rollbackFails)

(***************************************************************************)
(* The specifications.                                                     *)
(***************************************************************************)
\* the primitives called directly, within one transaction of the session
Next ==
    \/ GetById
    \/ Delete
    \/ Update
    \/ SaveOne
    \/ SaveList
    \/ Return
    \/ Commit
    \/ Rollback
    \/ GarbageCollect

Spec == Init /\ [][Next]_vars

\* the filtered and ordered reads
NextGet ==
    \/ Get
    \/ SaveOne
    \/ Delete
    \/ Return
    \/ Rollback

SpecGet == Init /\ [][NextGet]_vars

\* the lookups that create or build what they do not find
NextLookup ==
    \/ GetOrCreate
    \/ GetOrConvert
    \/ SaveOne
    \/ Delete
    \/ Return
    \/ Rollback

SpecLookup == Init /\ [][NextLookup]_vars

\* the operations wrapped by db_commit
NextCommit ==
    \/ CreateItem
    \/ UpdateItem
    \/ DeleteItem
    \/ WrappedCall
    \/ Return
    \/ Rollback

SpecCommit == Init /\ [][NextCommit]_vars

(***************************************************************************)
(* The properties.                                                         *)
(***************************************************************************)
WrappedOps == {"create_item", "update_item", "delete_item", "wrapped"}
Primitives == {"get", "get_by_id", "save", "update", "delete", "get_or_create", "get_or_convert"}

\* the call's id named no row of the table when the call was made
AbsentBefore == RowsWithPk(entity, call.before.txn, call.id) = {}

\* whether the lookup of get_or_create and get_or_convert selects the row
Selects(e, filters, row) ==
    IF HasKey(filters, F_id) THEN PkOf(e, row) = ValueAt(filters, F_id).n
    ELSE LET bc == _build_clauses(EntitySel(e), filters)
         IN  ~bc.out.raised /\ SatAll(row, bc.clauses)

\* whether a filter mapping has a malformed entry
Malformed(e, filters) ==
    \E i \in 1..Len(filters) :
      LET k == SplitKey(filters[i][1])
      IN  \/ k.field \notin Fields(e)
          \/ k.op \notin Operators
          \/ k.op = Op_in /\ filters[i][2].t # "list"

\* whether an outcome is a raised error that `except Exception` catches
IsException(out) == out.raised /\ out.kind \notin NonExceptions

\* C1 (as stated): every call of an operation wrapped by db_commit makes exactly
\* one commit attempt or exactly one rollback attempt, never both, never neither.
C1_ExactlyOneAttempt ==
    call.op \in WrappedOps => call.commits + call.rollbacks = 1

\* C1 (amended): when the wrapper locates a session, it attempts a commit exactly
\* once iff the wrapped operation returned and a rollback exactly once iff the
\* wrapped operation or the commit raised an Exception (so both when the commit
\* fails); when it locates no session it attempts neither, and when the wrapped
\* operation raises an error that is no Exception it attempts neither.
C1_AttemptsFollowOutcome ==
    call.op \in WrappedOps =>
      /\ call.commits \in {0, 1}
      /\ call.rollbacks \in {0, 1}
      /\ call.located =>
           /\ call.commits = 1 <=> ~call.inner.raised
           /\ call.rollbacks = 1 <=> (IsException(call.inner) \/ IsException(call.commit))
      /\ ~call.located => (call.commits = 0 /\ call.rollbacks = 0)
      /\ (call.inner.raised /\ ~IsException(call.inner)) =>
           (call.commits = 0 /\ call.rollbacks = 0)

\* a wrapped call whose commit raised an Exception: a commit attempt and a
\* rollback attempt
C1_Witness ==
    /\ call.op \in WrappedOps
    /\ call.located
    /\ IsException(call.commit)
    /\ call.commits = 1
    /\ call.rollbacks = 1

\* C2 (as stated): when the wrapped operation raises, the wrapper attempts a
\* rollback and the caller observes the very error the operation raised, also
\* when the rollback itself fails.
C2_RollbackAndOriginalError ==
    (call.op \in WrappedOps /\ call.inner.raised) =>
      /\ call.rollbacks >= 1
      /\ call.out = call.inner

\* C2 (amended): when the wrapped operation raises, no commit is attempted; a
\* rollback is attempted (once) exactly when the wrapper located a session and
\* the error is an Exception; the caller observes the very error the operation
\* raised, also when the rollback raises an Exception, and observes the error
\* of the rollback instead only when that error is no Exception.
C2_OriginalErrorPropagates ==
    (call.op \in WrappedOps /\ call.inner.raised) =>
      /\ call.commits = 0
      /\ call.rollbacks = (IF call.located /\ IsException(call.inner) THEN 1 ELSE 0)
      /\ call.out = (IF call.rollbacks = 1 /\ call.rollbackFails = "base"
                     THEN Failure("base", "rollback failed")
                     ELSE call.inner)

\* a wrapped operation raised, the rollback was attempted and raised an
\* Exception, and the caller observed the operation's error
C2_Witness ==
    /\ call.op \in WrappedOps
    /\ call.inner.raised
    /\ call.rollbacks = 1
    /\ call.rollbackFails = "exception"
    /\ call.out = call.inner

\* C3 (as stated): the only errors a caller observes from a CRUD primitive are
\* taxonomy errors, each with the status of its class.
C3_OnlyTaxonomyErrors ==
    (call.op \in Primitives /\ call.out.raised) =>
      /\ call.out.kind \in Taxonomy
      /\ call.out.status = (CASE call.out.kind = "NotFoundError" -> 404
                              [] call.out.kind = "ValidationError" -> 400
                              [] OTHER -> 500)

\* the call get_or_create(session, entity, vals, filters) made again right after
SecondCreate ==
    get_or_create(entity, database, session,
                  [ok |-> call.valsOk, row |-> call.items[1]], call.filters)

\* C4 (as stated): for any new_values (an instance can be built from) and any
\* (well-formed) filters whose values are all non-empty, two calls of
\* get_or_create in a row return an instance with the same identity and add
\* exactly one row over the two calls.
C4_Idempotent ==
    (/\ call.op = "get_or_create"
     /\ ~AnyBlank(call.filters)
     /\ call.valsOk
     /\ HasKey(call.filters, F_id) \/ ~Malformed(entity, call.filters)
     /\ ~call.before.broken) =>
      /\ ~call.out.raised
      /\ ~SecondCreate.out.raised
      /\ PkOf(entity, SecondCreate.out.val[1]) = PkOf(entity, call.out.val[1])
      /\ Cardinality(Keys(entity, SecondCreate.ss.txn) \ Keys(entity, call.before.txn)) = 1

\* C4 (amended): when the first call returns an instance the filters select
\* (found, or created from new_values that match them), the second call returns
\* the same instance and adds no row: the two calls add the returned row at most.
C4_IdempotentWhenSelected ==
    (/\ call.op = "get_or_create"
     /\ ~AnyBlank(call.filters)
     /\ call.out.shape = "instance"
     /\ Selects(entity, call.filters, call.out.val[1])) =>
      /\ SecondCreate.out = call.out
      /\ SecondCreate.ss.txn = session.txn
      /\ Keys(entity, SecondCreate.ss.txn) \ Keys(entity, call.before.txn)
           \subseteq {PkOf(entity, call.out.val[1])}

\* the first call created a row that its filters select
C4_Witness ==
    /\ call.op = "get_or_create"
    /\ ~AnyBlank(call.filters)
    /\ call.out.shape = "instance"
    /\ Selects(entity, call.filters, call.out.val[1])
    /\ PkOf(entity, call.out.val[1]) \notin Keys(entity, call.before.txn)
    /\ ~HasKey(call.filters, F_id)

\* C5 (as stated): update on a present id with a partial that sets only field X
\* sets X in the returned instance, leaves every other field unchanged and never
\* changes the primary key, whatever the key is named.
C5_UpdateSetsFieldKeepsKey ==
    (/\ call.op = "update"
     /\ ~AbsentBefore
     /\ ~call.out.raised
     /\ Cardinality(DOMAIN call.partial) = 1) =>
      LET old == RowOf(entity, call.before.txn, call.id)
          new == call.out.val[1]
      IN  /\ PkOf(entity, new) = call.id
          /\ \A f \in Fields(entity) \ {PkName(entity)} :
               new[f] = IF f \in DOMAIN call.partial THEN call.partial[f] ELSE old[f]

\* C6 (as stated): save returns a single instance for a single instance and the
\* list for a list of any length, 0 and 1 included.
C6_SaveKeepsShape ==
    call.op = "save" =>
      /\ (call.isList /\ call.items = <<>>) => (~call.out.raised /\ call.out.shape = "list")
      /\ ~call.out.raised => call.out.shape = (IF call.isList THEN "list" ELSE "instance")

\* whether the session the call was made on could look the id up: the
\* instance was loaded in it, or it was not awaiting rollback() and its pending
\* changes flush without error
CouldLookUp ==
    \/ call.id \in call.before.imap
    \/ ~call.before.broken /\ Flush(entity, call.before).ok

\* the call failed with DatabaseError (500)
FailedAsDatabaseError ==
    /\ call.out.raised
    /\ call.out.kind = "DatabaseError"
    /\ call.out.status = 500

\* C7 (as stated): delete on a present id returns true and a get_by_id of the same
\* id made right after it, with no commit or flush in between, returns nothing.
C7_DeletedThenGone ==
    (call.op = "delete" /\ ~AbsentBefore) =>
      /\ call.out = Ret("bool", <<>>)
      /\ get_by_id(entity, database, session, call.id).out.shape = "none"

\* C7 (amended): on a session that can look the id up, delete on a present id
\* returns true and marks the instance for deletion; a get_by_id of the same id
\* made right after it returns the marked instance and flushes nothing, and
\* returns nothing once the session has flushed or committed without error.  On
\* a session that cannot look the id up, delete fails with DatabaseError (500)
\* and marks nothing.
C7_DeletedOnceFlushed ==
    (call.op = "delete" /\ ~AbsentBefore) =>
      IF CouldLookUp
      THEN LET f == Flush(entity, session)
               c == SessionCommit(entity, database, session)
           IN  /\ call.out = Ret("bool", <<>>)
               /\ call.id \in session.deleted
               /\ get_by_id(entity, database, session, call.id).out.shape = "instance"
               /\ get_by_id(entity, database, session, call.id).ss = session
               /\ f.ok => get_by_id(entity, database, f.ss, call.id).out.shape = "none"
               /\ ~c.out.raised =>
                    /\ get_by_id(entity, c.db, c.ss, call.id).out.shape = "none"
                    /\ RowsWithPk(entity, c.db, call.id) = {}
      ELSE /\ FailedAsDatabaseError
           /\ session.deleted = {}

\* a delete of a present id has returned on a session that holds committed rows
C7_Witness ==
    /\ call.op = "delete"
    /\ ~AbsentBefore
    /\ ~call.out.raised
    /\ database # {}

\* what C8 says of a call with an absent id
AbsentIdHandled ==
    /\ call.op \in {"delete", "update"} =>
         /\ call.out.raised
         /\ call.out.kind = "NotFoundError"
         /\ call.out.status = 404
         /\ Effective(entity, database, session) = Effective(entity, database, call.before)
         /\ session.broken = call.before.broken
    /\ call.op = "get_by_id" => call.out = Ret("none", <<>>)

\* whether a change pending in the session gives the call's id to a row
PendingKey ==
    \E k \in (DOMAIN call.before.dirty) \ call.before.deleted :
      PkOf(entity, call.before.dirty[k]) = call.id

\* C8 (as stated): delete and update with an absent id always fail with
\* NotFoundError (404) and leave the table and the pending changes as they were;
\* get_by_id with an absent id returns nothing without an error.
C8_AbsentIdNotFound ==
    (call.op \in {"delete", "update", "get_by_id"} /\ AbsentBefore) => AbsentIdHandled

\* C8 (amended): for an id that is absent from the table and that no change
\* pending in the session gives to a row: on a session that is not awaiting
\* rollback() and whose pending changes flush without error the same holds; on
\* a session awaiting rollback(), or whose pending changes fail to flush, the
\* three calls fail with DatabaseError (500) and the session awaits rollback().
C8_AbsentIdNotFoundWhenUsable ==
    (/\ call.op \in {"delete", "update", "get_by_id"}
     /\ AbsentBefore
     /\ ~PendingKey) =>
      IF ~call.before.broken /\ Flush(entity, call.before).ok
      THEN AbsentIdHandled
      ELSE /\ FailedAsDatabaseError
           /\ session.broken

\* an update with an absent id failed while a deletion was pending
C8_Witness ==
    /\ call.op = "update"
    /\ AbsentBefore
    /\ ~PendingKey
    /\ call.before.deleted # {}
    /\ call.out.kind = "NotFoundError"

\* the lookup of the call found nothing
Missed ==
    /\ ~AnyBlank(call.filters)
    /\ Lookup(entity, database, call.before, call.filters).out.shape = "none"

\* C9: get_or_convert never persists: it adds no row and registers no pending
\* change, and after a call that missed a get with the same filters finds nothing.
C9_ConvertNeverPersists ==
    call.op = "get_or_convert" =>
      /\ session.txn \subseteq call.before.txn
      /\ session.deleted \subseteq call.before.deleted
      /\ Effective(entity, database, session) = Effective(entity, database, call.before)
      /\ Missed =>
           get(entity, database, session, EntitySel(entity), call.filters, <<>>, FALSE).out.val = <<>>

\* a get_or_convert that missed returned a transient instance its filters select
C9_Witness ==
    /\ call.op = "get_or_convert"
    /\ Missed
    /\ call.out.shape = "instance"
    /\ ~HasKey(call.filters, F_id)
    /\ Selects(entity, call.filters, call.out.val[1])

\* C10 (as stated): get with a malformed filter entry fails with ValidationError
\* (400), whatever the selection (an entity type or a list of columns).
C10_MalformedIsValidationError ==
    (call.op = "get" /\ Malformed(entity, call.filters)) =>
      /\ call.out.raised
      /\ call.out.kind = "ValidationError"
      /\ call.out.status = 400

====
